---- MODULE Spec2Model ----
(***************************************************************************)
(* Model of the Monte Carlo resampling portfolio optimizer                 *)
(* (misc/past-attempts/monte_carlo_resampling/monte_carlo_resampling.py),  *)
(* of the constrained solves it issues                                     *)
(* (misc/utils/optimize_weights_monte_carlo.py,                            *)
(* portfolio_optimization/utils/solvers.py) and of the interactive         *)
(* parameter collection (portfolio_optimization/__main__.py).              *)
(*                                                                         *)
(* Numbers are exact rationals <<numerator, denominator>> in lowest terms  *)
(* with a positive denominator; <<0, 0>> stands for numpy's nan.  A        *)
(* square root is kept symbolically as its radicand.  The universe has     *)
(* either no asset or two assets, for which the constrained quadratic      *)
(* program has a closed-form solution.                                     *)
(***************************************************************************)
EXTENDS Integers, Sequences, FiniteSets, TLC

(***************************************************************************)
(* Bounds of the model.                                                    *)
(***************************************************************************)
MaxSimulations == 2

MaxTargets == 3
MaxOptimizeCalls == 3

\* days a cache file is followed as it ages
MaxFileAge == 1

(***************************************************************************)
(* Program constants.                                                      *)
(***************************************************************************)
\* np.divide(mean_sample, 2.2): the divisor 2.2 as the fraction 22/10
ShrinkDivisorNum == 22

ShrinkDivisorDen == 10

\* the progress indicator fires when (i + 1) % 100 == 0
ProgressEvery == 100

\* default of get_float_input("Shrinkage intensity (0.0 - 1.0)", 0.7), in tenths
DefaultShrinkageTenths == 7

(***************************************************************************)
(* Exact rational arithmetic.                                              *)
(***************************************************************************)
Abs(n) == IF n < 0 THEN -n ELSE n

RECURSIVE GCD(_, _)
GCD(a, b) == IF b = 0 THEN a ELSE GCD(b, a % b)

NaN == <<0, 0>>

IsNaN(q) == q[2] = 0

Norm(n, d) ==
    IF d = 0 THEN NaN
    ELSE LET g == GCD(Abs(n), Abs(d))
             s == IF d < 0 THEN -1 ELSE 1
         IN  <<(s * n) \div g, (s * d) \div g>>

Q(n) == <<n, 1>>

\* sums over the least common denominator, products after cross-cancelling,
\* so that intermediate integers stay small
Lcm(a, b) == (a \div GCD(a, b)) * b

RAdd(a, b) == IF IsNaN(a) \/ IsNaN(b) THEN NaN
              ELSE LET l == Lcm(a[2], b[2])
                   IN  Norm(a[1] * (l \div a[2]) + b[1] * (l \div b[2]), l)

RNeg(a) == <<-a[1], a[2]>>

RSub(a, b) == RAdd(a, RNeg(b))

RMul(a, b) == IF IsNaN(a) \/ IsNaN(b) THEN NaN
              ELSE LET g1 == GCD(Abs(a[1]), b[2])
                       g2 == GCD(Abs(b[1]), a[2])
                   IN  Norm((a[1] \div g1) * (b[1] \div g2),
                            (a[2] \div g2) * (b[2] \div g1))

\* the only division by zero the program performs is 0/0 (a mean over no
\* element), which numpy evaluates to nan
RDiv(a, b) == IF IsNaN(a) \/ IsNaN(b) \/ b[1] = 0 THEN NaN
              ELSE RMul(a, Norm(b[2], b[1]))

RLess(a, b) == ~IsNaN(a) /\ ~IsNaN(b) /\ RSub(a, b)[1] < 0

RLeq(a, b) == ~IsNaN(a) /\ ~IsNaN(b) /\ RSub(a, b)[1] <= 0

RECURSIVE RSum(_)
RSum(s) == IF s = <<>> THEN Q(0) ELSE RAdd(Head(s), RSum(Tail(s)))

RECURSIVE RMinSeq(_)
RMinSeq(s) ==
    IF Len(s) = 1 THEN s[1]
    ELSE LET m == RMinSeq(Tail(s)) IN IF RLess(s[1], m) THEN s[1] ELSE m

RECURSIVE RMaxSeq(_)
RMaxSeq(s) ==
    IF Len(s) = 1 THEN s[1]
    ELSE LET m == RMaxSeq(Tail(s)) IN IF RLess(m, s[1]) THEN s[1] ELSE m

\* weights.T @ covariance_matrix @ weights
Quad(w, cov) ==
    RSum([a \in 1..Len(w) |->
            RMul(w[a], RSum([b \in 1..Len(w) |-> RMul(cov[a][b], w[b])]))])

\* np.sqrt, kept symbolically
Sqrt(q) == [sqrt_of |-> q]

(***************************************************************************)
(* What the data collaborator can deliver: the asset universe and, per     *)
(* asset, its yearly returns (in percent).                                 *)
(***************************************************************************)
Pct(n) == Norm(n, 100)

Markets ==
    { [tickers |-> <<>>, yearly |-> <<>>],
      \* distinct means, non-singular covariance
      [tickers |-> <<"AAA", "BBB">>,
       yearly  |-> << <<Pct(5), Pct(15), Pct(10)>>, <<Pct(30), Pct(20), Pct(10)>> >>],
      \* equal means
      [tickers |-> <<"AAA", "BBB">>,
       yearly  |-> << <<Pct(5), Pct(15), Pct(10)>>, <<Pct(20), Pct(10), Pct(0)>> >>],
      \* constant series: the sample covariance is the zero matrix
      [tickers |-> <<"AAA", "BBB">>,
       yearly  |-> << <<Pct(10), Pct(10), Pct(10)>>, <<Pct(20), Pct(20), Pct(20)>> >>] }

\* shrinkage intensities a caller may pass, in tenths (15 is 1.5)
ShrinkageChoices == {0, DefaultShrinkageTenths, 10, 15}

SimulationChoices == -1..MaxSimulations

TargetChoices == -1..MaxTargets

(***************************************************************************)
(* Typed lines of the interactive prompts, classified by what int() and    *)
(* float() make of them.  An empty line selects a prompt's default; the    *)
(* integer prompts' defaults (10 portfolios, 500 simulations) lie beyond   *)
(* the bounds, so the empty line is offered to the float prompt only.      *)
(***************************************************************************)
Garbage == [kind |-> "garbage", val |-> 0]

EmptyLine == [kind |-> "empty", val |-> 0]

IntLit(n) == [kind |-> "int", val |-> n]

\* a literal with a decimal point, val in tenths ("1.5" is 15)
DecimalLit(t) == [kind |-> "decimal", val |-> t]

TargetLines == {Garbage, DecimalLit(15)} \cup {IntLit(n) : n \in TargetChoices}

SimulationLines == {Garbage, DecimalLit(15)} \cup {IntLit(n) : n \in SimulationChoices}

ShrinkageLines == {Garbage, EmptyLine, IntLit(0), IntLit(1), DecimalLit(15)}

\* int(user_input): [ok, value]
ParseInt(line) ==
    IF line.kind = "int" THEN [ok |-> TRUE, value |-> line.val]
    ELSE [ok |-> FALSE, value |-> 0]

\* float(user_input): [ok, value in tenths]
ParseFloat(line) ==
    CASE line.kind = "int"     -> [ok |-> TRUE, value |-> 10 * line.val]
      [] line.kind = "decimal" -> [ok |-> TRUE, value |-> line.val]
      [] OTHER                 -> [ok |-> FALSE, value |-> 0]

(***************************************************************************)
(* Estimation (run, lines 71-85).                                          *)
(***************************************************************************)
\* np.mean(yearly_returns, axis=1)
MeanSample(yr) == [a \in 1..Len(yr) |-> RDiv(RSum(yr[a]), Q(Len(yr[a])))]

\* np.divide(mean_sample, 2.2)
MeanTarget(ms) == [a \in 1..Len(ms) |-> RDiv(ms[a], Norm(ShrinkDivisorNum, ShrinkDivisorDen))]

\* mutant: the two blend weights exchanged
MeanShrunkSwapped(lambda, ms) ==
    [a \in 1..Len(ms) |->
        RAdd(RMul(RSub(Q(1), lambda), MeanTarget(ms)[a]), RMul(lambda, ms[a]))]

\* shrinkage_intensity * mean_target + (1 - shrinkage_intensity) * mean_sample
MeanShrunk(lambda, ms) ==
    [a \in 1..Len(ms) |->
        RAdd(RMul(lambda, MeanTarget(ms)[a]), RMul(RSub(Q(1), lambda), ms[a]))]

\* np.cov(yearly_returns_array): rows are variables, normalised by T - 1
CovMatrix(yr) ==
    LET T == Len(yr[1])
        m == MeanSample(yr)
    IN  [a \in 1..Len(yr) |-> [b \in 1..Len(yr) |->
            RDiv(RSum([t \in 1..T |->
                        RMul(RSub(yr[a][t], m[a]), RSub(yr[b][t], m[b]))]),
                 Q(T - 1))]]

\* cov_matrix / T
EstimationUncertainty(cov, T) ==
    [a \in 1..Len(cov) |-> [b \in 1..Len(cov) |-> RDiv(cov[a][b], Q(T))]]

(***************************************************************************)
(* Target returns (run, lines 90-94).                                      *)
(***************************************************************************)
\* mutant: the spacing of endpoint=False, which stops short of stop
LinspaceNoEndpoint(start, stop, num) ==
    LET step == RDiv(RSub(stop, start), Q(num))
    IN  [j \in 1..num |-> RAdd(start, RMul(Q(j - 1), step))]

\* np.linspace(start, stop, num) for num >= 0
Linspace(start, stop, num) ==
    IF num = 1 THEN <<start>>
    ELSE LET step == RDiv(RSub(stop, start), Q(num - 1))
         IN  [j \in 1..num |->
                IF j = num THEN stop ELSE RAdd(start, RMul(Q(j - 1), step))]

(***************************************************************************)
(* The constrained solve: scipy's SLSQP on the two-asset problem           *)
(*   minimise w' Sigma w  subject to  w1 + w2 = 1,  [w . mu = target],     *)
(*   lo <= w1, w2 <= hi.                                                   *)
(* A solve that converges returns the optimum; the optimum is written in   *)
(* closed form.  A solve whose constraints no point satisfies cannot       *)
(* converge: result.success is False and result.x is the iterate the       *)
(* solver stopped at.  SLSQP keeps its iterates inside the bounds and,     *)
(* started from 1/N, on the linear budget constraint (every step d it      *)
(* takes solves the linearised budget constraint, whose residual is 0), so *)
(* the iterate it stops at is a point of the budget line inside the box.   *)
(***************************************************************************)
Half == Norm(1, 2)

Clip(x, lo, hi) == IF RLess(x, lo) THEN lo ELSE IF RLess(hi, x) THEN hi ELSE x

\* the interval of w1 on the budget line w2 = 1 - w1 inside the box
BudgetLo(lo, hi) == IF RLess(lo, RSub(Q(1), hi)) THEN RSub(Q(1), hi) ELSE lo

BudgetHi(lo, hi) == IF RLess(RSub(Q(1), lo), hi) THEN RSub(Q(1), lo) ELSE hi

\* the minimiser of the variance on the budget line; where the variance is
\* constant along the line the initial iterate 1/N is already stationary
MinVarianceOnBudget(cov, lo, hi) ==
    LET den == RSub(RAdd(cov[1][1], cov[2][2]), RMul(Q(2), cov[1][2]))
        w1  == IF RLess(Q(0), den)
               THEN Clip(RDiv(RSub(cov[2][2], cov[1][2]), den),
                         BudgetLo(lo, hi), BudgetHi(lo, hi))
               ELSE Half
    IN  <<w1, RSub(Q(1), w1)>>

\* the only point meeting both equality constraints when mu1 # mu2
OnBothConstraints(mu, target) ==
    LET w1 == RDiv(RSub(target, mu[2]), RSub(mu[1], mu[2]))
    IN  <<w1, RSub(Q(1), w1)>>

Feasible(mu, target, lo, hi, with_return_constraint) ==
    \/ ~with_return_constraint
    \/ /\ mu[1] = mu[2]
       /\ target = mu[1]
    \/ /\ mu[1] # mu[2]
       /\ RLeq(BudgetLo(lo, hi), OnBothConstraints(mu, target)[1])
       /\ RLeq(OnBothConstraints(mu, target)[1], BudgetHi(lo, hi))

\* the ways an SLSQP run on an infeasible problem can end
FailureModes == {"initial", "corner"}

\* result.x of a run that did not converge, by the way it ended:
\*   initial  the initial iterate 1/N (the first subproblem already fails)
\*   corner   all weight on the asset whose return is nearest the target
\*            (the iterates moved along the budget line until a bound held them)
FailureIterate(mode, mu, target, lo, hi) ==
    LET above == RLess(RMaxSeq(mu), target)
        top   == IF RLess(mu[1], mu[2]) THEN 2 ELSE 1
        pick  == IF above THEN top ELSE 3 - top
    IN  IF mode = "initial"
        THEN <<Half, Half>>
        ELSE [a \in 1..2 |-> IF a = pick THEN BudgetHi(lo, hi) ELSE BudgetLo(lo, hi)]

\* optimize.minimize(objective, initial, method="SLSQP", bounds, constraints):
\* [success, x]
Minimize(mode, mu, target, cov, lo, hi, with_return_constraint) ==
    IF Feasible(mu, target, lo, hi, with_return_constraint)
    THEN [success |-> TRUE,
          x |-> IF with_return_constraint /\ mu[1] # mu[2]
                THEN OnBothConstraints(mu, target)
                ELSE MinVarianceOnBudget(cov, lo, hi)]
    ELSE [success |-> FALSE, x |-> FailureIterate(mode, mu, target, lo, hi)]

\* optimize_weights_monte_carlo(sample_returns, target_return, covariance_matrix):
\* long-only bounds, both constraints, returns result.x
optimize_weights_monte_carlo(mode, sample_returns, target, cov) ==
    Minimize(mode, sample_returns, target, cov, Q(0), Q(1), TRUE).x

\* minimize_variance_portfolio(expected_returns, target_return,
\*   covariance_matrix, allow_short, with_return_constraint): returns result.x
minimize_variance_portfolio(mode, mu, target, cov, allow_short, with_return_constraint) ==
    Minimize(mode, mu, target, cov,
             IF allow_short THEN Q(-1) ELSE Q(0), Q(1), with_return_constraint).x

(***************************************************************************)
(* The draw np.random.multivariate_normal(mean_shrunk, uncertainty): the   *)
(* mean plus a perturbation in the support of the distribution, which is   *)
(* the column space of the uncertainty matrix (the zero matrix allows the  *)
(* zero perturbation only).                                                *)
(***************************************************************************)
Perturbations == { <<Q(0), Q(0)>>, <<Pct(-2), Pct(2)>>, <<Pct(2), Pct(-2)>> }

InSupport(u, d) ==
    LET det == RSub(RMul(u[1][1], u[2][2]), RMul(u[1][2], u[2][1]))
        col == IF u[1] # <<Q(0), Q(0)>> THEN u[1] ELSE u[2]
    IN  \/ d = <<Q(0), Q(0)>>
        \/ det # Q(0)
        \/ /\ col # <<Q(0), Q(0)>>
           /\ RMul(d[1], col[2]) = RMul(d[2], col[1])

\* mutant: a perturbation is added whatever the uncertainty matrix
MultivariateNormalUnscaled(mean, u) ==
    { [a \in 1..Len(mean) |-> RAdd(mean[a], d[a])] : d \in Perturbations }

MultivariateNormal(mean, u) ==
    { [a \in 1..Len(mean) |-> RAdd(mean[a], d[a])] :
        d \in {e \in Perturbations : InSupport(u, e)} }

(***************************************************************************)
(* Averaging and reporting (run, lines 126-144).                           *)
(***************************************************************************)
RECURSIVE RunningMean(_, _, _, _)
RunningMean(storage, s, t, a) ==
    IF s = 0 THEN Q(0)
    ELSE RMul(Half, RAdd(RunningMean(storage, s - 1, t, a), storage[s][t][a]))

\* mutant: a running average, avg = (avg + w) / 2 draw after draw
MeanOverDrawsRunning(storage, S, K, N) ==
    [t \in 1..K |-> [a \in 1..N |-> RunningMean(storage, S, t, a)]]

\* np.mean(weight_storage, axis=0): shape (S, K, N) to (K, N); the mean over
\* no draw is nan
MeanOverDraws(storage, S, K, N) ==
    [t \in 1..K |-> [a \in 1..N |->
        RDiv(RSum([s \in 1..S |-> storage[s][t][a]]), Q(S))]]

(***************************************************************************)
(* The algorithm registry (portfolio_optimization/algorithms/__init__.py). *)
(* A dict keeps its insertion order: the registry is the sequence of its   *)
(* (name, class) items.                                                    *)
(***************************************************************************)
Registry ==
    << [name |-> "mean_variance",          class |-> "MeanVariance"],
       [name |-> "monte_carlo_resampling", class |-> "MonteCarloResampling"],
       [name |-> "minimum_variance",       class |-> "MinimumVariance"] >>

\* names a caller may ask for: the registered ones, an unregistered one, ""
RequestedNames == {"mean_variance", "monte_carlo_resampling", "minimum_variance",
                   "risk_parity", ""}

\* name in ALGORITHMS
Registered(reg, name) == \E j \in 1..Len(reg) : reg[j].name = name

\* mutant: an unknown name falls back to the first registered class
get_algorithm_defaulting(reg, name) ==
    IF Registered(reg, name)
    THEN [raised |-> "none", class |-> reg[CHOOSE j \in 1..Len(reg) : reg[j].name = name].class]
    ELSE [raised |-> "none", class |-> reg[1].class]

\* get_algorithm(name): the class, or ValueError
get_algorithm(reg, name) ==
    IF ~Registered(reg, name)
    THEN [raised |-> "ValueError", class |-> "none"]
    ELSE [raised |-> "none",
          class |-> reg[CHOOSE j \in 1..Len(reg) : reg[j].name = name].class]

\* list_algorithms(): list(ALGORITHMS.keys())
list_algorithms(reg) == [j \in 1..Len(reg) |-> reg[j].name]

\* lines typed at "Select algorithm (1-n) [1]"
ChoiceLines == {EmptyLine, Garbage, DecimalLit(15)} \cup {IntLit(n) : n \in -1..4}

(***************************************************************************)
(* The optimizer instance (algorithms/base.py, minimum_variance.py).       *)
(* covariance_matrix is <<>> while it is None, and for an empty universe,  *)
(* where np.cov returns a 0-d array.                                       *)
(***************************************************************************)
\* BaseOptimizer.__init__
NewOptimizer ==
    [tickers |-> <<>>, yearly_returns |-> <<>>, covariance_matrix |-> <<>>,
     data_loaded |-> FALSE]

\* no OptimizationResult
NoResult ==
    [weights |-> <<>>, expected_returns |-> <<>>, volatilities |-> <<>>,
     tickers |-> <<>>, covariance_matrix |-> <<>>, algorithm_name |-> "none",
     historical_returns |-> <<>>]

\* load_data: the universe is read, then the series are fetched (which may
\* raise), then the estimates are made; _data_loaded is set last
load_data(opt, mkt, raises) ==
    IF raises
    THEN [opt EXCEPT !.tickers = mkt.tickers]
    ELSE [tickers |-> mkt.tickers, yearly_returns |-> mkt.yearly,
          covariance_matrix |-> CovMatrix(mkt.yearly), data_loaded |-> TRUE]

\* mutant: every call loads
ensure_data_loaded_always(opt) == TRUE

\* _ensure_data_loaded: whether load_data is called
ensure_data_loaded(opt) == ~opt.data_loaded

\* minimize_volatility_portfolio(covariance_matrix, allow_short): the budget
\* constraint and the bounds only; [success, x, lo, hi]
minimize_volatility_portfolio(mode, cov, allow_short) ==
    LET lo  == IF allow_short THEN Q(-1) ELSE Q(0)
        res == Minimize(mode, <<Q(0), Q(0)>>, Q(0), cov, lo, Q(1), FALSE)
    IN  [success |-> res.success, x |-> res.x, lo |-> lo, hi |-> Q(1),
         constrained |-> FALSE, mu |-> <<>>, target |-> Q(0)]

\* a solve for the return np.mean(expected_returns) with the return constraint
targeted_volatility_portfolio(mode, cov, mu) ==
    LET target == RDiv(RSum(mu), Q(Len(mu)))
        res    == Minimize(mode, mu, target, cov, Q(0), Q(1), TRUE)
    IN  [success |-> res.success, x |-> res.x, lo |-> Q(0), hi |-> Q(1),
         constrained |-> TRUE, mu |-> mu, target |-> target]

\* the rest of optimize once the solver has returned (lines 58-74)
ResultOf(opt, solved) ==
    LET weights          == solved.x
        expected_returns == MeanSample(opt.yearly_returns)
    IN  [raised |-> "none",
         solver |-> << [caller |-> "minimize_volatility_portfolio", draw |-> 0,
                       level |-> 0, mu |-> solved.mu, target |-> solved.target,
                       constrained |-> solved.constrained,
                       lo |-> solved.lo, hi |-> solved.hi, success |-> solved.success,
                       returned |-> "weights", x |-> weights] >>,
         result |-> [weights |-> <<weights>>,
                     expected_returns |->
                        << RSum([a \in 1..Len(weights) |->
                                   RMul(weights[a], expected_returns[a])]) >>,
                     volatilities |-> << Sqrt(Quad(weights, opt.covariance_matrix)) >>,
                     tickers |-> opt.tickers,
                     covariance_matrix |-> opt.covariance_matrix,
                     algorithm_name |-> "minimum_variance",
                     historical_returns |-> expected_returns]]

\* mutant: the weights are solved for the average historical return
MinimumVarianceTargeted(mode, opt) ==
    IF opt.covariance_matrix = <<>>
    THEN [raised |-> "IndexError", solver |-> <<>>, result |-> NoResult]
    ELSE ResultOf(opt, targeted_volatility_portfolio(mode, opt.covariance_matrix,
                                                     MeanSample(opt.yearly_returns)))

\* MinimumVariance.optimize after _ensure_data_loaded (lines 52-80):
\* covariance_matrix.shape[0] of a 0-d array raises IndexError
MinimumVariance(mode, opt) ==
    IF opt.covariance_matrix = <<>>
    THEN [raised |-> "IndexError", solver |-> <<>>, result |-> NoResult]
    ELSE ResultOf(opt, minimize_volatility_portfolio(mode, opt.covariance_matrix, FALSE))

(***************************************************************************)
(* fetch_ticker_data and its cache (data/fetcher.py and                    *)
(* misc/utils/ticker_fetcher.py).  A path is the sequence of its parts; a  *)
(* file is [exists, age, data] with its age in whole days.                 *)
(***************************************************************************)
Fetchers == {"data/fetcher", "misc/utils/ticker_fetcher"}

Periods == {"5y", "10y"}

Intervals == {"1d", "1wk"}

Symbols == {"AAA", "BBB"}

\* the end dates passed
Ends == {"2025-12-31", "2024-12-31"}

AllKeys == [period : Periods, ticker : Symbols, interval : Intervals]

\* the keys of the calls followed through the cache
FetchKeys ==
    { [period |-> "5y",  ticker |-> "AAA", interval |-> "1d"],
      [period |-> "10y", ticker |-> "AAA", interval |-> "1d"] }

MaxAgeDaysChoices == 0..MaxFileAge

\* cache_file
CacheFile(f, key) ==
    IF f = "data/fetcher"
    THEN <<"portfolio_optimization/cache", "/", key.period, "/",
           key.ticker, "_", key.interval, ".csv">>
    ELSE <<"misc/cache", "/", key.ticker, "_", key.period, "_", key.interval, ".csv">>

CachePaths == { CacheFile(f, key) : f \in Fetchers, key \in FetchKeys }

NoData == [period |-> "", ticker |-> "", interval |-> "", end |-> "", form |-> "none"]

NoFile == [exists |-> FALSE, age |-> 0, data |-> NoData]

\* yf.download(ticker, period=.., interval=.., end=end)
Download(key, end) ==
    [period |-> key.period, ticker |-> key.ticker, interval |-> key.interval,
     end |-> end, form |-> "frame"]

\* data.to_csv(cache_file): the file written now
ToCsv(data) == [exists |-> TRUE, age |-> 0, data |-> [data EXCEPT !.form = "csv"]]

\* pd.read_csv(cache_file, header=[0, 1], index_col=0)
ReadCsv(file) == [file.data EXCEPT !.form = "read_csv"]

\* mutant: a file exactly max_age_days old is still used
FreshInclusive(file, max_age_days) == file.exists /\ file.age <= max_age_days

\* cache_file.exists() and file_age < timedelta(days=max_age_days)
Fresh(file, max_age_days) == file.exists /\ file.age < max_age_days

NotFetched ==
    [period |-> "", ticker |-> "", interval |-> "", end |-> "", max_age_days |-> 0,
     outcome |-> "none", data |-> NoData]

(***************************************************************************)
(* State.                                                                  *)
(***************************************************************************)
VARIABLES
    pc,                     \* where the program is
    market,                 \* what the data collaborator delivers
    slsqp_failure,          \* how the solver ends on an infeasible problem
    shrinkage_intensity,    \* run's arguments
    num_simulations,
    num_target_returns,
    tickers,                \* run's locals
    yearly_returns,
    mean_sample,
    mean_shrunk,
    cov_matrix,
    estimation_uncertainty,
    target_return,
    weight_storage,
    i,                      \* the draw being run, 1-based (the code's i + 1)
    k,                      \* the target level being solved, 1-based
    sampled_returns,
    progress,               \* the "Progress: n / S" lines printed
    weight_storage_avg,
    rows,                   \* the table rows printed, in print order
    error,                  \* the exception that ended the call, or "none"
    solver_result,          \* what a direct minimize_variance_portfolio call returned
    solver_calls,           \* history: every optimize.minimize run
    writes,                 \* history: assignments to weight_storage[i, k, :]
    ALGORITHMS,             \* the registry of algorithms/__init__.py
    available,              \* select_algorithm's list of names
    algorithm_name,         \* the name asked for / selected
    algorithm_class,        \* what get_algorithm returned
    optimizer,              \* the optimizer instance's fields
    load_data_calls,        \* history: how each load_data call ended
    optimize_calls,         \* history: the number of optimize calls
    result,                 \* what the last optimize call returned
    fetcher,                \* the module whose fetch_ticker_data is called
    cache,                  \* the cache directory: path -> file
    fetched                 \* the last fetch_ticker_data call and what it returned

vars == <<pc, market, slsqp_failure, shrinkage_intensity, num_simulations,
          num_target_returns, tickers, yearly_returns, mean_sample, mean_shrunk,
          cov_matrix, estimation_uncertainty, target_return, weight_storage, i, k,
          sampled_returns, progress, weight_storage_avg, rows, error,
          solver_result, solver_calls, writes,
          ALGORITHMS, available, algorithm_name, algorithm_class,
          optimizer, load_data_calls, optimize_calls, result,
          fetcher, cache, fetched>>

fetching == <<fetcher, cache, fetched>>

instance == <<optimizer, load_data_calls, optimize_calls, result>>

registry == <<ALGORITHMS, available, algorithm_name, algorithm_class>>

\* the state of run and of the solver
resampler == <<market, slsqp_failure, shrinkage_intensity, num_simulations,
               num_target_returns, tickers, yearly_returns, mean_sample, mean_shrunk,
               cov_matrix, estimation_uncertainty, target_return, weight_storage, i, k,
               sampled_returns, progress, weight_storage_avg, rows,
               solver_result, solver_calls, writes>>

\* what the steps of run and of the solver leave alone
ext == <<registry, instance, fetching>>

args == <<shrinkage_intensity, num_simulations, num_target_returns>>

estimates == <<mean_sample, mean_shrunk, cov_matrix, estimation_uncertainty>>

loop == <<weight_storage, i, k, sampled_returns, progress, solver_calls, writes>>

NumAssets == Len(tickers)

Init ==
    /\ pc = "idle"
    /\ market \in Markets
    /\ slsqp_failure \in FailureModes
    /\ shrinkage_intensity = Q(0)
    /\ num_simulations = 0
    /\ num_target_returns = 0
    /\ tickers = <<>>
    /\ yearly_returns = <<>>
    /\ mean_sample = <<>>
    /\ mean_shrunk = <<>>
    /\ cov_matrix = <<>>
    /\ estimation_uncertainty = <<>>
    /\ target_return = <<>>
    /\ weight_storage = <<>>
    /\ i = 0
    /\ k = 0
    /\ sampled_returns = <<>>
    /\ progress = <<>>
    /\ weight_storage_avg = <<>>
    /\ rows = <<>>
    /\ error = "none"
    /\ solver_result = <<>>
    /\ solver_calls = <<>>
    /\ writes = <<>>
    /\ ALGORITHMS = Registry
    /\ available = <<>>
    /\ algorithm_name = ""
    /\ algorithm_class = "none"
    /\ optimizer = NewOptimizer
    /\ load_data_calls = <<>>
    /\ optimize_calls = 0
    /\ result = NoResult
    /\ fetcher = "none"
    /\ cache = [path \in CachePaths |-> NoFile]
    /\ fetched = NotFetched

(***************************************************************************)
(* Entry points.                                                           *)
(***************************************************************************)
\* run(shrinkage_intensity, period, num_simulations, num_target_returns),
\* called directly: the arguments are taken as given
CallRun(lambda, S, K) ==
    /\ pc = "idle"
    /\ shrinkage_intensity' = Norm(lambda, 10)
    /\ num_simulations' = S
    /\ num_target_returns' = K
    /\ pc' = "load"
    /\ UNCHANGED <<ext, market, slsqp_failure, tickers, yearly_returns, estimates,
                   target_return, loop, weight_storage_avg, rows, error, solver_result>>

\* main(), the monte_carlo_resampling branch is entered (lines 78-83)
MainStart ==
    /\ pc = "selected"
    /\ algorithm_name = "monte_carlo_resampling"
    /\ pc' = "ask_portfolios"
    /\ UNCHANGED <<ext, market, slsqp_failure, args, tickers, yearly_returns, estimates,
                   target_return, loop, weight_storage_avg, rows, error, solver_result>>

\* portfolios = get_int_input("Number of portfolios on frontier", 10):
\* a line int() rejects is asked again, any integer is returned
AskPortfolios(line) ==
    /\ pc = "ask_portfolios"
    /\ IF ParseInt(line).ok
       THEN /\ num_target_returns' = ParseInt(line).value
            /\ pc' = "ask_shrinkage"
       ELSE UNCHANGED <<num_target_returns, pc>>
    /\ UNCHANGED <<ext, market, slsqp_failure, shrinkage_intensity, num_simulations,
                   tickers, yearly_returns, estimates, target_return, loop,
                   weight_storage_avg, rows, error, solver_result>>

\* shrinkage = get_float_input("Shrinkage intensity (0.0 - 1.0)", 0.7)
AskShrinkage(line) ==
    /\ pc = "ask_shrinkage"
    /\ IF line.kind = "empty"
       THEN /\ shrinkage_intensity' = Norm(DefaultShrinkageTenths, 10)
            /\ pc' = "ask_simulations"
       ELSE IF ParseFloat(line).ok
       THEN /\ shrinkage_intensity' = Norm(ParseFloat(line).value, 10)
            /\ pc' = "ask_simulations"
       ELSE UNCHANGED <<shrinkage_intensity, pc>>
    /\ UNCHANGED <<ext, market, slsqp_failure, num_simulations, num_target_returns,
                   tickers, yearly_returns, estimates, target_return, loop,
                   weight_storage_avg, rows, error, solver_result>>

\* simulations = get_int_input("Number of simulations", 500), then
\* optimizer.optimize(shrinkage_intensity, num_simulations, num_portfolios)
AskSimulations(line) ==
    /\ pc = "ask_simulations"
    /\ IF ParseInt(line).ok
       THEN /\ num_simulations' = ParseInt(line).value
            /\ pc' = "load"
       ELSE UNCHANGED <<num_simulations, pc>>
    /\ UNCHANGED <<ext, market, slsqp_failure, shrinkage_intensity, num_target_returns,
                   tickers, yearly_returns, estimates, target_return, loop,
                   weight_storage_avg, rows, error, solver_result>>

(***************************************************************************)
(* run, step by step.                                                      *)
(***************************************************************************)
\* lines 60-66: tickers = load_assets(); the yearly returns of each ticker
LoadData ==
    /\ pc = "load"
    /\ tickers' = market.tickers
    /\ yearly_returns' = market.yearly
    /\ pc' = "estimate"
    /\ UNCHANGED <<ext, market, slsqp_failure, args, estimates, target_return, loop,
                   weight_storage_avg, rows, error, solver_result>>

\* lines 71-85: np.mean(.., axis=1) of an empty list raises AxisError
Estimate ==
    /\ pc = "estimate"
    /\ IF yearly_returns = <<>>
       THEN /\ error' = "AxisError"
            /\ pc' = "raised"
            /\ UNCHANGED estimates
       ELSE /\ mean_sample' = MeanSample(yearly_returns)
            /\ mean_shrunk' = MeanShrunk(shrinkage_intensity, MeanSample(yearly_returns))
            /\ cov_matrix' = CovMatrix(yearly_returns)
            /\ estimation_uncertainty' =
                 EstimationUncertainty(CovMatrix(yearly_returns), Len(yearly_returns[1]))
            /\ pc' = "targets"
            /\ UNCHANGED error
    /\ UNCHANGED <<ext, market, slsqp_failure, args, tickers, yearly_returns,
                   target_return, loop, weight_storage_avg, rows, solver_result>>

\* lines 90-94: np.linspace raises ValueError for a negative count
Targets ==
    /\ pc = "targets"
    /\ IF num_target_returns < 0
       THEN /\ error' = "ValueError"
            /\ pc' = "raised"
            /\ UNCHANGED target_return
       ELSE /\ target_return' = Linspace(RMinSeq(mean_shrunk), RMaxSeq(mean_shrunk),
                                         num_target_returns)
            /\ pc' = "allocate"
            /\ UNCHANGED error
    /\ UNCHANGED <<ext, market, slsqp_failure, args, tickers, yearly_returns, estimates,
                   loop, weight_storage_avg, rows, solver_result>>

\* line 99: np.zeros raises ValueError for a negative dimension; the loop of
\* line 109 is entered or, with no simulation, skipped
Allocate ==
    /\ pc = "allocate"
    /\ IF num_simulations < 0
       THEN /\ error' = "ValueError"
            /\ pc' = "raised"
            /\ UNCHANGED <<weight_storage, writes, i>>
       ELSE /\ weight_storage' =
                 [s \in 1..num_simulations |-> [t \in 1..Len(target_return) |->
                    [a \in 1..NumAssets |-> Q(0)]]]
            /\ writes' =
                 [s \in 1..num_simulations |-> [t \in 1..Len(target_return) |-> 0]]
            /\ i' = 1
            /\ pc' = IF num_simulations > 0 THEN "sample" ELSE "average"
            /\ UNCHANGED error
    /\ UNCHANGED <<ext, market, slsqp_failure, args, tickers, yearly_returns, estimates,
                   target_return, k, sampled_returns, progress, solver_calls,
                   weight_storage_avg, rows, solver_result>>

\* lines 110-112: the draw of simulation i
Sample ==
    /\ pc = "sample"
    /\ sampled_returns' \in MultivariateNormal(mean_shrunk, estimation_uncertainty)
    /\ k' = 1
    /\ pc' = IF Len(target_return) > 0 THEN "solve" ELSE "progress"
    /\ UNCHANGED <<ext, market, slsqp_failure, args, tickers, yearly_returns, estimates,
                   target_return, weight_storage, i, progress, solver_calls, writes,
                   weight_storage_avg, rows, error, solver_result>>

\* lines 113-117: one solve, its result.x stored in slot (i, k)
Solve ==
    /\ pc = "solve"
    /\ LET res == Minimize(slsqp_failure, sampled_returns, target_return[k],
                           cov_matrix, Q(0), Q(1), TRUE)
           optimal_weights ==
               optimize_weights_monte_carlo(slsqp_failure, sampled_returns,
                                            target_return[k], cov_matrix)
       IN  /\ weight_storage' = [weight_storage EXCEPT ![i][k] = optimal_weights]
           /\ writes' = [writes EXCEPT ![i][k] = @ + 1]
           /\ solver_calls' = Append(solver_calls,
                 [caller |-> "run", draw |-> i, level |-> k,
                  mu |-> sampled_returns, target |-> target_return[k],
                  constrained |-> TRUE, lo |-> Q(0), hi |-> Q(1),
                  success |-> res.success, returned |-> "weights",
                  x |-> optimal_weights])
    /\ k' = k + 1
    /\ pc' = IF k = Len(target_return) THEN "progress" ELSE "solve"
    /\ UNCHANGED <<ext, market, slsqp_failure, args, tickers, yearly_returns, estimates,
                   target_return, i, sampled_returns, progress,
                   weight_storage_avg, rows, error, solver_result>>

\* lines 119-121, and the end of the body of the loop of line 109
Progress ==
    /\ pc = "progress"
    /\ progress' = IF i % ProgressEvery = 0 \/ i = num_simulations
                   THEN Append(progress, i) ELSE progress
    /\ i' = i + 1
    /\ pc' = IF i = num_simulations THEN "average" ELSE "sample"
    /\ UNCHANGED <<ext, market, slsqp_failure, args, tickers, yearly_returns, estimates,
                   target_return, weight_storage, k, sampled_returns, solver_calls,
                   writes, weight_storage_avg, rows, error, solver_result>>

\* line 126
Average ==
    /\ pc = "average"
    /\ weight_storage_avg' = MeanOverDraws(weight_storage, num_simulations,
                                           Len(target_return), NumAssets)
    /\ pc' = "report"
    /\ UNCHANGED <<ext, market, slsqp_failure, args, tickers, yearly_returns, estimates,
                   target_return, loop, rows, error, solver_result>>

\* mutant: the per-draw variances averaged, instead of the variance of the
\* averaged weights
RowVolatilityMeanOfDraws(t) ==
    Sqrt(RDiv(RSum([s \in 1..num_simulations |-> Quad(weight_storage[s][t], cov_matrix)]),
              Q(num_simulations)))

\* lines 139-141: the volatility printed for level t
RowVolatility(t) == Sqrt(Quad(weight_storage_avg[t], cov_matrix))

\* lines 138-144: the rows in the order the loop prints them
RECURSIVE PrintRows(_, _)
PrintRows(t, printed) ==
    IF t > Len(target_return) THEN printed
    ELSE PrintRows(t + 1, Append(printed,
            [return_level |-> target_return[t],
             weights      |-> weight_storage_avg[t],
             volatility   |-> RowVolatility(t)]))

\* lines 128-148: the table, then
\* return weight_storage_avg, target_return, tickers, cov_matrix
Report ==
    /\ pc = "report"
    /\ rows' = PrintRows(1, <<>>)
    /\ pc' = "done"
    /\ UNCHANGED <<ext, market, slsqp_failure, args, tickers, yearly_returns, estimates,
                   target_return, loop, weight_storage_avg, error, solver_result>>

(***************************************************************************)
(* minimize_variance_portfolio called directly.                            *)
(***************************************************************************)
DirectReturns == { <<Pct(10), Pct(20)>>, <<Pct(10), Pct(10)>> }

DirectTargets == { Pct(5), Pct(10), Pct(15), Pct(25) }

CallMinimizeVariance(mu, target, allow_short, with_return_constraint) ==
    /\ pc = "idle"
    /\ market.tickers # <<>>
    /\ LET cov == CovMatrix(market.yearly)
           lo  == IF allow_short THEN Q(-1) ELSE Q(0)
           res == Minimize(slsqp_failure, mu, target, cov, lo, Q(1),
                           with_return_constraint)
           x   == minimize_variance_portfolio(slsqp_failure, mu, target, cov,
                                              allow_short, with_return_constraint)
       IN  /\ solver_result' = x
           /\ solver_calls' = Append(solver_calls,
                 [caller |-> "direct", draw |-> 0, level |-> 0,
                  mu |-> mu, target |-> target,
                  constrained |-> with_return_constraint, lo |-> lo, hi |-> Q(1),
                  success |-> res.success, returned |-> "weights", x |-> x])
    /\ pc' = "solved"
    /\ UNCHANGED <<ext, market, slsqp_failure, args, tickers, yearly_returns, estimates,
                   target_return, weight_storage, i, k, sampled_returns, progress,
                   writes, weight_storage_avg, rows, error>>

(***************************************************************************)
(* The registry and the interactive selection.                             *)
(***************************************************************************)
\* get_algorithm(name) called by a client
CallGetAlgorithm(name) ==
    /\ pc = "idle"
    /\ algorithm_name' = name
    /\ algorithm_class' = get_algorithm(ALGORITHMS, name).class
    /\ error' = get_algorithm(ALGORITHMS, name).raised
    /\ pc' = "looked_up"
    /\ UNCHANGED <<ALGORITHMS, available, resampler, instance, fetching>>

\* main() up to select_algorithm's prompt (lines 66-71, 44-49): the names are
\* listed and get_algorithm is called on each for its description
MainSelect ==
    /\ pc = "idle"
    /\ available' = list_algorithms(ALGORITHMS)
    /\ IF \E j \in 1..Len(ALGORITHMS) :
             get_algorithm(ALGORITHMS, list_algorithms(ALGORITHMS)[j]).raised # "none"
       THEN /\ error' = "ValueError"
            /\ pc' = "raised"
       ELSE /\ pc' = "select_algorithm"
            /\ UNCHANGED error
    /\ UNCHANGED <<ALGORITHMS, algorithm_name, algorithm_class, resampler, instance, fetching>>

\* the index select_algorithm's loop (lines 51-61) returns for a line, 0 when
\* the line is asked again
SelectedIndex(line, n) ==
    IF line.kind = "empty" THEN 1
    ELSE IF ParseInt(line).ok /\ 0 <= ParseInt(line).value - 1
                              /\ ParseInt(line).value - 1 < n
    THEN ParseInt(line).value
    ELSE 0

\* select_algorithm's loop, then algorithm_class = get_algorithm(algorithm_name)
\* (lines 51-72)
SelectAlgorithm(line) ==
    /\ pc = "select_algorithm"
    /\ LET idx == SelectedIndex(line, Len(available))
       IN  IF idx = 0
           THEN UNCHANGED <<pc, algorithm_name, algorithm_class, error>>
           ELSE /\ algorithm_name' = available[idx]
                /\ algorithm_class' = get_algorithm(ALGORITHMS, available[idx]).class
                /\ error' = get_algorithm(ALGORITHMS, available[idx]).raised
                /\ pc' = IF get_algorithm(ALGORITHMS, available[idx]).raised = "none"
                         THEN "selected" ELSE "raised"
    /\ UNCHANGED <<ALGORITHMS, available, resampler, instance, fetching>>

\* main(), the branch of the other frontier algorithms (lines 98-102):
\* portfolios = get_int_input(..), then optimize(num_portfolios=portfolios) of
\* a class that is not part of this model
MainFrontier(line) ==
    /\ pc = "selected"
    /\ algorithm_name = "mean_variance"
    /\ IF ParseInt(line).ok
       THEN /\ num_target_returns' = ParseInt(line).value
            /\ pc' = "frontier_optimize"
       ELSE UNCHANGED <<num_target_returns, pc>>
    /\ UNCHANGED <<ext, market, slsqp_failure, shrinkage_intensity, num_simulations,
                   tickers, yearly_returns, estimates, target_return, loop,
                   weight_storage_avg, rows, error, solver_result>>

(***************************************************************************)
(* The optimizer instance.                                                 *)
(***************************************************************************)
\* MinimumVariance(period=..) constructed by a client
Construct ==
    /\ pc = "idle"
    /\ optimizer' = NewOptimizer
    /\ pc' = "instance"
    /\ UNCHANGED <<registry, resampler, fetching, error, load_data_calls, optimize_calls, result>>

\* main(), the minimum_variance branch (lines 78-81): the instance is
\* constructed; optimize() is then called once
MainMinimumVariance ==
    /\ pc = "selected"
    /\ algorithm_name = "minimum_variance"
    /\ optimizer' = NewOptimizer
    /\ pc' = "instance"
    /\ UNCHANGED <<registry, resampler, fetching, error, load_data_calls, optimize_calls, result>>

\* optimizer.optimize(): _ensure_data_loaded, then the solve and the result;
\* raises says whether a fetch inside load_data raises
Optimize(raises) ==
    /\ pc = "instance"
    /\ optimize_calls < MaxOptimizeCalls
    /\ algorithm_name = "minimum_variance" => optimize_calls = 0
    /\ optimize_calls' = optimize_calls + 1
    /\ LET loads  == ensure_data_loaded(optimizer)
           loaded == IF loads THEN load_data(optimizer, market, raises) ELSE optimizer
           out    == MinimumVariance(slsqp_failure, loaded)
       IN  /\ loads \/ ~raises
           /\ optimizer' = loaded
           /\ load_data_calls' =
                 IF loads THEN Append(load_data_calls, IF raises THEN "raised" ELSE "ok")
                 ELSE load_data_calls
           /\ IF loads /\ raises
              THEN /\ error' = "DataError"
                   /\ result' = NoResult
                   /\ UNCHANGED <<solver_calls, solver_result>>
              ELSE /\ error' = out.raised
                   /\ result' = out.result
                   /\ solver_calls' = solver_calls \o out.solver
                   /\ solver_result' = IF out.solver = <<>> THEN solver_result
                                       ELSE out.solver[1].x
    /\ UNCHANGED <<registry, fetching, market, slsqp_failure, args, tickers,
                   yearly_returns,
                   estimates, target_return, weight_storage, i, k, sampled_returns,
                   progress, writes, weight_storage_avg, rows, pc>>

(***************************************************************************)
(* The cache of fetch_ticker_data.                                         *)
(***************************************************************************)
\* a client imports one of the two modules; the cache depends on neither the
\* market nor the solver, and is followed for one choice of them
ImportFetcher(f) ==
    /\ pc = "idle"
    /\ market.tickers = <<>>
    /\ slsqp_failure = "initial"
    /\ fetcher' = f
    /\ pc' = "fetching"
    /\ UNCHANGED <<registry, instance, resampler, error, cache, fetched>>

\* a day passes: every cache file is a day older
Day ==
    /\ pc = "fetching"
    /\ \E path \in CachePaths : cache[path].exists /\ cache[path].age < MaxFileAge
    /\ cache' = [path \in CachePaths |->
                    IF cache[path].exists /\ cache[path].age < MaxFileAge
                    THEN [cache[path] EXCEPT !.age = @ + 1]
                    ELSE cache[path]]
    /\ UNCHANGED <<registry, instance, resampler, error, pc, fetcher, fetched>>

\* fetch_ticker_data(ticker, period, interval, max_age_days, end); raises
\* says whether yf.download raises
FetchTickerData(key, max_age_days, end, raises) ==
    /\ pc = "fetching"
    /\ LET cache_file == CacheFile(fetcher, key)
           call == [period |-> key.period, ticker |-> key.ticker,
                    interval |-> key.interval, end |-> end,
                    max_age_days |-> max_age_days]
       IN  IF Fresh(cache[cache_file], max_age_days)
           THEN /\ ~raises
                /\ fetched' = [outcome |-> "cached",
                               data |-> ReadCsv(cache[cache_file])] @@ call
                /\ UNCHANGED cache
           ELSE IF raises
           THEN /\ fetched' = [outcome |-> "raised", data |-> NoData] @@ call
                /\ UNCHANGED cache
           ELSE /\ cache' = [cache EXCEPT ![cache_file] = ToCsv(Download(key, end))]
                /\ fetched' = [outcome |-> "downloaded",
                               data |-> Download(key, end)] @@ call
    /\ UNCHANGED <<registry, instance, resampler, error, pc, fetcher>>

Next ==
    \/ \E f \in Fetchers : ImportFetcher(f)
    \/ Day
    \/ \E key \in FetchKeys, max_age_days \in MaxAgeDaysChoices, end \in Ends,
          raises \in BOOLEAN : FetchTickerData(key, max_age_days, end, raises)
    \/ Construct
    \/ MainMinimumVariance
    \/ \E raises \in BOOLEAN : Optimize(raises)
    \/ \E name \in RequestedNames : CallGetAlgorithm(name)
    \/ MainSelect
    \/ \E line \in ChoiceLines : SelectAlgorithm(line)
    \/ \E line \in TargetLines : MainFrontier(line)
    \/ \E lambda \in ShrinkageChoices, S \in SimulationChoices, K \in TargetChoices :
          CallRun(lambda, S, K)
    \/ MainStart
    \/ \E line \in TargetLines : AskPortfolios(line)
    \/ \E line \in ShrinkageLines : AskShrinkage(line)
    \/ \E line \in SimulationLines : AskSimulations(line)
    \/ LoadData
    \/ Estimate
    \/ Targets
    \/ Allocate
    \/ Sample
    \/ Solve
    \/ Progress
    \/ Average
    \/ Report
    \/ \E mu \in DirectReturns, target \in DirectTargets,
          allow_short \in BOOLEAN, with_return_constraint \in BOOLEAN :
          CallMinimizeVariance(mu, target, allow_short, with_return_constraint)

Spec == Init /\ [][Next]_vars

(***************************************************************************)
(* Properties.                                                             *)
(***************************************************************************)
Calls == 1..Len(solver_calls)

RunCalls == {n \in Calls : solver_calls[n].caller = "run"}

Configured == pc \in {"load", "estimate", "targets", "allocate", "sample", "solve",
                      "progress", "average", "report", "done", "raised"}

Averaged == pc \in {"report", "done"}

InRange(mu, target) == RLeq(RMinSeq(mu), target) /\ RLeq(target, RMaxSeq(mu))

\* C1: a solve whose target return lies outside [min(mu), max(mu)] of the
\* expected returns passed with it raises InfeasibleTarget before the solver
\* is invoked: the solver never runs on such a target, neither for a direct
\* minimize_variance_portfolio call nor for a (draw, level) solve of run.
C1_InfeasibleTargetNeverSolved ==
    \A n \in Calls :
        solver_calls[n].constrained =>
            InRange(solver_calls[n].mu, solver_calls[n].target)

\* the mean over the draws whose solve at level t converged
ConvergedDraws(t) ==
    {n \in RunCalls : solver_calls[n].level = t /\ solver_calls[n].success}

RECURSIVE SumOfCalls(_, _)
SumOfCalls(ns, a) ==
    IF ns = {} THEN Q(0)
    ELSE LET n == CHOOSE m \in ns : TRUE
         IN  RAdd(solver_calls[n].x[a], SumOfCalls(ns \ {n}, a))

MeanOfConverged(t) ==
    [a \in 1..NumAssets |->
        RDiv(SumOfCalls(ConvergedDraws(t), a), Q(Cardinality(ConvergedDraws(t))))]

\* C2: a solve that does not converge is reported as a failure, not as
\* weights, and the averaged weights of a batch leave out the weight vectors
\* of the solves that did not converge.
C2_NonConvergenceReported ==
    /\ \A n \in Calls :
          ~solver_calls[n].success => solver_calls[n].returned = "failure"
    /\ Averaged =>
          \A t \in 1..Len(target_return) :
              weight_storage_avg[t] = MeanOfConverged(t)

InvalidConfiguration ==
    \/ RLess(shrinkage_intensity, Q(0))
    \/ RLess(Q(1), shrinkage_intensity)
    \/ num_simulations < 1
    \/ num_target_returns < 1
    \/ market.tickers = <<>>

\* C3: a run configured with a shrinkage intensity outside [0, 1], fewer than
\* one simulation, fewer than one target level or an empty asset universe
\* performs no solve and returns no result.
C3_InvalidConfigurationFailsFast ==
    (Configured /\ InvalidConfiguration) =>
        /\ RunCalls = {}
        /\ pc # "done"

Tolerance == Norm(1, 1000000)

RAbs(q) == <<Abs(q[1]), q[2]>>

ValidWeights(w, lo, hi) ==
    /\ RLess(RAbs(RSub(RSum(w), Q(1))), Tolerance)
    /\ \A a \in 1..Len(w) : RLeq(lo, w[a]) /\ RLeq(w[a], hi)

\* C4: every weight vector returned, each solver result and each averaged
\* weight vector of a finished run, sums to 1 within 1e-6 and lies inside
\* its bounds, whatever the solver's termination status.
C4_ReturnedWeightsValid ==
    /\ \A n \in Calls :
          ValidWeights(solver_calls[n].x, solver_calls[n].lo, solver_calls[n].hi)
    /\ pc = "done" =>
          \A t \in 1..Len(weight_storage_avg) :
              ValidWeights(weight_storage_avg[t], Q(0), Q(1))

\* C5: the target handed to the solver for draw s and level t is the t-th of
\* the K values linearly spaced from min(mu_s) to max(mu_s) of that draw.
C5_TargetsFromEachDraw ==
    \A n \in RunCalls :
        solver_calls[n].target =
            Linspace(RMinSeq(solver_calls[n].mu), RMaxSeq(solver_calls[n].mu),
                     num_target_returns)[solver_calls[n].level]

TargetsSet == pc \in {"allocate", "sample", "solve", "progress", "average",
                      "report", "done"}

\* what C6 says of the targets apart from their order: K values, the first
\* min(mu), the last max(mu), and the rows of a finished run in target order
FrontierShape ==
    /\ Len(target_return) = num_target_returns
    /\ target_return[1] = RMinSeq(mean_shrunk)
    /\ num_target_returns > 1 =>
          target_return[num_target_returns] = RMaxSeq(mean_shrunk)
    /\ pc = "done" =>
          /\ Len(rows) = num_target_returns
          /\ \A t \in 1..num_target_returns :
                rows[t].return_level = target_return[t]

\* the original statement of C6: the targets are strictly increasing for
\* every K > 1, also when all expected returns are equal
C6_TargetsStrictlyIncreasing ==
    (TargetsSet /\ num_target_returns >= 1) =>
        /\ FrontierShape
        /\ \A t \in 1..(num_target_returns - 1) :
              RLess(target_return[t], target_return[t + 1])

\* C6 (amended): for K >= 1 the targets are K values from min(mu) to max(mu)
\* inclusive, never decreasing, strictly increasing when K > 1 and
\* min(mu) < max(mu), all equal to min(mu) when all expected returns are
\* equal; the single target of K = 1 is min(mu); the rows are printed in
\* target order.
C6_TargetsAscending ==
    (TargetsSet /\ num_target_returns >= 1) =>
        /\ FrontierShape
        /\ \A t \in 1..(num_target_returns - 1) :
              /\ RLeq(target_return[t], target_return[t + 1])
              /\ RLess(RMinSeq(mean_shrunk), RMaxSeq(mean_shrunk)) =>
                    RLess(target_return[t], target_return[t + 1])
              /\ RMinSeq(mean_shrunk) = RMaxSeq(mean_shrunk) =>
                    target_return[t] = target_return[t + 1]

C6_Witness ==
    /\ pc = "done"
    /\ num_target_returns >= 3
    /\ RLess(rows[1].return_level, rows[2].return_level)
    /\ RLess(rows[2].return_level, rows[3].return_level)

\* the call that filled slot (s, t)
CallsOfSlot(s, t) ==
    {n \in RunCalls : solver_calls[n].draw = s /\ solver_calls[n].level = t}

DrawOrders(S) ==
    {p \in [1..S -> 1..S] : \A x, y \in 1..S : p[x] = p[y] => x = y}

\* the sum of the solver results of level t, component a, taken in order p
RECURSIVE SumInOrder(_, _, _, _)
SumInOrder(p, j, t, a) ==
    IF j = 0 THEN Q(0)
    ELSE RAdd(SumInOrder(p, j - 1, t, a),
              solver_calls[CHOOSE n \in CallsOfSlot(p[j], t) : TRUE].x[a])

Variance2(w, cov) ==
    RAdd(RAdd(RMul(RMul(w[1], cov[1][1]), w[1]), RMul(RMul(w[1], cov[1][2]), w[2])),
         RAdd(RMul(RMul(w[2], cov[2][1]), w[1]), RMul(RMul(w[2], cov[2][2]), w[2])))

MeanVarianceOfDraws(t) ==
    RDiv(RSum([s \in 1..num_simulations |-> Variance2(weight_storage[s][t], cov_matrix)]),
         Q(num_simulations))

\* C8: the volatility printed for each level is the square root of
\* w_avg' Sigma_sample w_avg of the averaged weights of that level.
C8_VolatilityFromAveragedWeights ==
    pc = "done" =>
        \A t \in 1..Len(rows) :
            /\ rows[t].weights = weight_storage_avg[t]
            /\ rows[t].volatility = Sqrt(Variance2(weight_storage_avg[t], cov_matrix))

\* a finished run where the variance of the averaged weights is not the
\* mean of the per-draw variances
C8_Witness ==
    /\ pc = "done"
    /\ num_simulations >= 2
    /\ \E t \in 1..Len(rows) :
          /\ ~IsNaN(rows[t].volatility.sqrt_of)
          /\ rows[t].volatility.sqrt_of # Q(0)
          /\ rows[t].volatility # Sqrt(MeanVarianceOfDraws(t))

ZeroMatrix(m) == \A a \in 1..Len(m) : \A b \in 1..Len(m) : m[a][b] = Q(0)

\* the frontier built once from (mu, Sigma, K): the K linearly spaced
\* targets, one solve per target, the volatility of each solution
DirectFrontier(mu, cov, K) ==
    [t \in 1..K |->
        LET target == Linspace(RMinSeq(mu), RMaxSeq(mu), K)[t]
            w      == Minimize(slsqp_failure, mu, target, cov, Q(0), Q(1), TRUE).x
        IN  [return_level |-> target,
             weights      |-> w,
             volatility   |-> Sqrt(Variance2(w, cov))]]

\* C9: with one simulation and a zero estimation-uncertainty matrix the
\* rows of the resampled frontier (targets, weights, volatilities) are those
\* of the frontier built once from (mean_shrunk, cov_matrix, K).
C9_SingleExactDrawIsDirectFrontier ==
    (pc = "done" /\ num_simulations = 1 /\ ZeroMatrix(estimation_uncertainty)) =>
        rows = DirectFrontier(mean_shrunk, cov_matrix, num_target_returns)

C9_Witness ==
    /\ pc = "done"
    /\ num_simulations = 1
    /\ ZeroMatrix(estimation_uncertainty)
    /\ num_target_returns >= 2
    /\ rows[1].weights # rows[2].weights

Estimated == pc \in {"targets", "allocate", "sample", "solve", "progress",
                     "average", "report", "done"}

\* C10: per asset, 22 * mean_shrunk = 10 * lambda * mean_sample
\* + 22 * (1 - lambda) * mean_sample, that is mean_shrunk =
\* lambda * (mean_sample / 2.2) + (1 - lambda) * mean_sample; lambda = 0 gives
\* mean_sample and lambda = 1 gives mean_sample / 2.2.
C10_ShrinkageFormula ==
    (Estimated \/ (pc = "raised" /\ mean_sample # <<>>)) =>
        /\ Len(mean_shrunk) = NumAssets
        /\ \A a \in 1..NumAssets :
              /\ mean_sample[a] = RDiv(RSum(yearly_returns[a]), Q(Len(yearly_returns[a])))
              /\ RMul(Q(22), mean_shrunk[a]) =
                    RAdd(RMul(Q(10), RMul(shrinkage_intensity, mean_sample[a])),
                         RMul(Q(22), RMul(RSub(Q(1), shrinkage_intensity), mean_sample[a])))
              /\ shrinkage_intensity = Q(0) => mean_shrunk[a] = mean_sample[a]
              /\ shrinkage_intensity = Q(1) =>
                    RMul(Q(22), mean_shrunk[a]) = RMul(Q(10), mean_sample[a])

C10_Witness ==
    /\ pc = "targets"
    /\ shrinkage_intensity = Q(1)
    /\ mean_sample = <<Pct(10), Pct(20)>>
    /\ mean_shrunk = <<Norm(1, 22), Norm(1, 11)>>

Looked == pc \in {"looked_up", "selected", "ask_portfolios", "ask_shrinkage",
                  "ask_simulations", "frontier_optimize"}

\* C14: get_algorithm(name) returns the class registered under name when name
\* is a key of ALGORITHMS and raises ValueError otherwise; the registry is
\* never changed; every name list_algorithms returns is accepted by
\* get_algorithm, and the interactive selection returns one of these names.
C14_RegistryLookup ==
    /\ ALGORITHMS = Registry
    /\ \A j \in 1..Len(ALGORITHMS) :
          /\ get_algorithm(ALGORITHMS, list_algorithms(ALGORITHMS)[j]).raised = "none"
          /\ get_algorithm(ALGORITHMS, ALGORITHMS[j].name).class = ALGORITHMS[j].class
    /\ pc = "looked_up" =>
          IF \E j \in 1..Len(Registry) : Registry[j].name = algorithm_name
          THEN /\ error = "none"
               /\ \E j \in 1..Len(Registry) :
                     /\ Registry[j].name = algorithm_name
                     /\ Registry[j].class = algorithm_class
          ELSE /\ error = "ValueError"
               /\ algorithm_class = "none"
    /\ (Looked /\ pc # "looked_up") =>
          /\ error = "none"
          /\ \E j \in 1..Len(Registry) :
                /\ Registry[j].name = algorithm_name
                /\ Registry[j].class = algorithm_class
    /\ pc = "select_algorithm" => error = "none"

C14_Witness ==
    /\ pc = "looked_up"
    /\ algorithm_name = "risk_parity"
    /\ error = "ValueError"
    /\ ALGORITHMS = Registry

\* C11: construction performs no load; the first optimize call calls
\* load_data; once a load_data call has succeeded no later optimize call of
\* the instance loads again; a load_data call that raises leaves the instance
\* not loaded, and the next optimize call loads again.
C11_LoadsLazilyAtMostOnce ==
    /\ optimize_calls = 0 =>
          /\ load_data_calls = <<>>
          /\ ~optimizer.data_loaded
    /\ optimize_calls >= 1 => Len(load_data_calls) >= 1
    /\ \A j \in 1..Len(load_data_calls) :
          load_data_calls[j] = "ok" => j = Len(load_data_calls)
    /\ optimizer.data_loaded <=>
          /\ load_data_calls # <<>>
          /\ load_data_calls[Len(load_data_calls)] = "ok"
    /\ ~optimizer.data_loaded => Len(load_data_calls) = optimize_calls

C11_Witness ==
    /\ pc = "instance"
    /\ optimize_calls = MaxOptimizeCalls
    /\ load_data_calls = <<"raised", "ok">>

\* the result of optimize on a fresh instance over another market
OtherRun(m) == MinimumVariance(slsqp_failure, load_data(NewOptimizer, m, FALSE)).result

\* markets with the covariance of the last result
SameSigma == { m \in Markets : /\ m.tickers # <<>>
                               /\ CovMatrix(m.yearly) = result.covariance_matrix }

WeightedReturn(w, yr) == RSum([a \in 1..Len(w) |-> RMul(w[a], MeanSample(yr)[a])])

\* C12: each MinimumVariance.optimize call that returns has made exactly one
\* solver call, with the sample covariance, the budget constraint only and
\* long-only bounds, and returns one frontier point; the weights depend on
\* the covariance alone: a run over a market with the same covariance and
\* other average returns returns the same weights and volatility, and the
\* reported expected return is the weighted historical average of each.
C12_OneSolveWeightsFromSigma ==
    (pc = "instance" /\ result # NoResult) =>
        /\ Len(solver_calls) =
              optimize_calls - Cardinality({j \in 1..Len(load_data_calls) :
                                               load_data_calls[j] = "raised"})
        /\ \A j \in 1..Len(solver_calls) :
              /\ solver_calls[j].caller = "minimize_volatility_portfolio"
              /\ ~solver_calls[j].constrained
              /\ solver_calls[j].lo = Q(0)
              /\ solver_calls[j].hi = Q(1)
              /\ solver_calls[j].success
              /\ solver_calls[j].x = result.weights[1]
        /\ result.covariance_matrix = CovMatrix(market.yearly)
        /\ Len(result.weights) = 1
        /\ Len(result.expected_returns) = 1
        /\ Len(result.volatilities) = 1
        /\ ValidWeights(result.weights[1], Q(0), Q(1))
        /\ result.expected_returns[1] = WeightedReturn(result.weights[1], market.yearly)
        /\ \A m \in SameSigma :
              /\ OtherRun(m).weights = result.weights
              /\ OtherRun(m).volatilities = result.volatilities
              /\ OtherRun(m).expected_returns[1] =
                    WeightedReturn(result.weights[1], m.yearly)

C12_Witness ==
    /\ pc = "instance"
    /\ result # NoResult
    /\ optimize_calls = 1
    /\ \E m \in SameSigma :
          /\ MeanSample(m.yearly) # MeanSample(market.yearly)
          /\ OtherRun(m).weights = result.weights
          /\ OtherRun(m).expected_returns # result.expected_returns

\* the draws whose solves have all finished
Completed == IF pc = "progress" THEN i ELSE i - 1

\* a step that ends the loop of the batch as it stands and goes on to the
\* average of the draws completed so far
Abort ==
    /\ Next
    /\ pc' \in {"average", "report", "done"}
    /\ UNCHANGED <<i, weight_storage>>
    /\ pc' # "average" =>
          weight_storage_avg' = MeanOverDraws(weight_storage, Completed,
                                              Len(target_return), NumAssets)

\* C13: while a batch has draws left it can be aborted between two solves,
\* and then returns the average of the draws completed so far; the last
\* progress report of a finished batch states S of S simulations.
C13_AbortReturnsPartialAverage ==
    /\ (pc \in {"sample", "solve", "progress"} /\ Completed < num_simulations) =>
          ENABLED Abort
    /\ (pc = "done" /\ num_simulations >= 1) =>
          /\ progress # <<>>
          /\ progress[Len(progress)] = num_simulations

\* what the claim says of one call
FetchContract(key, max_age_days, end) ==
    LET path == CacheFile(fetcher, key)
        file == cache[path]
    IN  /\ (file.exists /\ file.age < max_age_days) =>
              /\ fetched'.outcome = "cached"
              /\ fetched'.data = [file.data EXCEPT !.form = "read_csv"]
              /\ cache' = cache
        /\ ~(file.exists /\ file.age < max_age_days) =>
              /\ fetched'.outcome \in {"downloaded", "raised"}
              /\ fetched'.outcome = "downloaded" =>
                    /\ fetched'.data.end = end
                    /\ cache'[path].exists
                    /\ cache'[path].age = 0
                    /\ cache'[path].data.end = end
                    /\ \A other \in CachePaths \ {path} : cache'[other] = cache[other]
              /\ fetched'.outcome = "raised" => cache' = cache
        /\ fetched'.outcome # "raised" => cache'[path].exists
        /\ \A f \in Fetchers : \A k1, k2 \in AllKeys :
              CacheFile(f, k1) = CacheFile(f, k2) => k1 = k2

\* C15: a call whose key has a cache file younger than max_age_days returns
\* that file's data with no download and no write, whatever its end
\* argument; any other call downloads and overwrites the file of its key
\* alone; after every call that returns, the file of its key exists; files of
\* different (period, ticker, interval) are different files.
C15_CacheKeyedWithoutEnd ==
    [][\A key \in FetchKeys, max_age_days \in MaxAgeDaysChoices, end \in Ends,
          raises \in BOOLEAN :
            FetchTickerData(key, max_age_days, end, raises) =>
                FetchContract(key, max_age_days, end)]_vars

C15_Witness ==
    /\ pc = "fetching"
    /\ fetched.outcome = "cached"
    /\ fetched.data.end # fetched.end
    /\ fetched.data.ticker = fetched.ticker

====
